---- MODULE Spec2Model ----
(***************************************************************************)
(* Model of the real-estate news feed scripts.                             *)
(*                                                                         *)
(*   scrape_news.py : fetch_news -> parse_news (per <article> loop, then   *)
(*                    sort) -> generate_news_list_html -> write_final_html *)
(*                    -> end of the __main__ block                         *)
(*   fetch_news.py  : fetch_google_news (per entry) -> sort -> json dump   *)
(*                                                                         *)
(* Instants are integer minutes since 0001-01-01T00:00 (datetime.min), so  *)
(* that the lower end of Python's datetime range is the instant 0.         *)
(* Text is modelled as sequences of tokens; the conversions the scripts    *)
(* apply (lower(), get_text(strip=True), urljoin, fromisoformat, the       *)
(* regular expressions) are operators over those tokens.                   *)
(***************************************************************************)
EXTENDS Integers, Sequences, FiniteSets, TLC

VARIABLES
    prog,           \* which script runs: "scrape_news" or "fetch_news"
    pc,             \* position of the script
    clock,          \* the wall clock, in minutes since datetime.min (a run
                    \* takes less than the model's time unit)
    remaining,      \* <article> elements / feed entries not yet visited
    news_items,     \* parse_news: news_items; fetch_news.py: items / news
    unsorted,       \* news_items as it was when the loop ended (discovery order)
    last,           \* the loop iteration that ran last: entry, now, outcome
    news_list_html, \* generate_news_list_html's result (a token sequence)
    template,       \* what reading TEMPLATE_FILE gave
    output,         \* OUTPUT_FILE (index.html) / news.json
    success,        \* write_final_html's return value
    raised,         \* the uncaught exception that ended the run, "" if none
    exit_status     \* the process's exit status, -1 while running

vars == <<prog, pc, clock, remaining, news_items, unsorted, last,
          news_list_html, template, output, success, raised, exit_status>>

(***************************************************************************)
(* Bounds of the model.                                                    *)
(***************************************************************************)
MaxEntries == 2       \* <article> elements on the page / entries in the feed
MaxTemplateLen == 2   \* tokens in template.html

\* The clock when the run starts: 2026-11-05T00:00Z, in minutes since datetime.min.
NowStart == 739924 * 1440

(***************************************************************************)
(* Datetimes.  tz is "naive" for a datetime without tzinfo; for an aware   *)
(* datetime t is the instant and tz the zone it is expressed in; for a     *)
(* naive one t is its wall-clock reading.                                  *)
(***************************************************************************)
DT(t, tz) == [t |-> t, tz |-> tz]

NoDate == DT(0, "None")     \* parsed_date = None

IsAware(d) == d.tz \notin {"naive", "None"}

\* src/scrape_news.py:20
TIMEZONE == "America/New_York"

\* datetime.datetime.now(tz): the clock's instant, expressed in tz
DatetimeNow(now, tz) == DT(now, tz)

\* datetime - timedelta: the result must lie in [datetime.min, datetime.max];
\* below datetime.min Python raises OverflowError.
MinusRaises(now, minutes) == now - minutes < 0

(***************************************************************************)
(* Date text: a sequence of whitespace-separated words.  A word is a run   *)
(* of digits (num) or another word (w).                                    *)
(***************************************************************************)
Num(n) == [k |-> "num", n |-> n, s |-> ""]
W(s) == [k |-> "w", n |-> 0, s |-> s]

\* str.lower() on the words of the vocabulary
LowerWord(w) ==
    IF w.k = "num" THEN w
    ELSE CASE w.s = "Yesterday" -> W("yesterday")
           [] w.s = "YESTERDAY" -> W("yesterday")
           [] w.s = "Hours" -> W("hours")
           [] w.s = "Wed," -> W("wed,")
           [] w.s = "Oct" -> W("oct")
           [] w.s = "GMT" -> W("gmt")
           [] w.s = "Monday," -> W("monday,")
           [] OTHER -> w

Lower(text) == [i \in 1..Len(text) |-> LowerWord(text[i])]

\* kw in word, for the lower-cased words of the vocabulary
WordContains(w, kw) ==
    /\ w.k = "w"
    /\ CASE kw = "yesterday" -> w.s \in {"yesterday"}
         [] kw = "hour" -> w.s \in {"hour", "hours"}
         [] kw = "minute" -> w.s \in {"minute", "minutes"}
         [] kw = "day" -> w.s \in {"day", "days", "yesterday", "monday,"}
         [] OTHER -> FALSE

\* kw in date_str
Contains(text, kw) == \E i \in 1..Len(text) : WordContains(text[i], kw)

\* word.startswith(unit)
WordStartsWith(w, unit) ==
    /\ w.k = "w"
    /\ CASE unit = "hour" -> w.s \in {"hour", "hours"}
         [] unit = "minute" -> w.s \in {"minute", "minutes"}
         [] unit = "day" -> w.s \in {"day", "days"}
         [] OTHER -> FALSE

\* positions where r'(\d+)\s+<unit>' matches: digits, whitespace, then unit
MatchPositions(text, unit) ==
    {i \in 1..(Len(text) - 1) : text[i].k = "num" /\ WordStartsWith(text[i + 1], unit)}

\* re.search(...) is None
NoMatch(text, unit) == MatchPositions(text, unit) = {}

\* int(re.search(...).group(1)): the leftmost match
MatchedInt(text, unit) ==
    LET ps == MatchPositions(text, unit)
        p == CHOOSE i \in ps : \A j \in ps : i <= j
    IN text[p].n

(***************************************************************************)
(* parse_relative_date (src/scrape_news.py:33-52).  A resolution outcome   *)
(* is the exception that escaped ("" if none) and the datetime returned.   *)
(***************************************************************************)
Ok(d) == [raised |-> "", date |-> d]
Raise(e) == [raised |-> e, date |-> NoDate]

\* now - datetime.timedelta(<unit>=n), per = minutes in the unit
NowMinus(now, n, per) ==
    IF MinusRaises(now, n * per)
    THEN Raise("OverflowError")
    ELSE Ok(DT(now - n * per, TIMEZONE))

\* one `if "<unit>" in date_str:` branch: the regex, int(), the subtraction.
\* A missing match is AttributeError, caught by the except clause, after
\* which the function returns now; OverflowError is not in the except clause.
UnitBranch(s, now, unit, per) ==
    IF NoMatch(s, unit)
    THEN Ok(DatetimeNow(now, TIMEZONE))
    ELSE NowMinus(now, MatchedInt(s, unit), per)

parse_relative_date(date_str, now) ==
    LET s == Lower(date_str)
    IN IF Contains(s, "yesterday") THEN NowMinus(now, 1, 1440)
       ELSE IF Contains(s, "hour") THEN UnitBranch(s, now, "hour", 60)
       ELSE IF Contains(s, "minute") THEN UnitBranch(s, now, "minute", 1)
       ELSE IF Contains(s, "day") THEN UnitBranch(s, now, "day", 1440)
       ELSE Ok(DatetimeNow(now, TIMEZONE))

(***************************************************************************)
(* The datetime attribute.  form: "Z" (ISO-8601 with a Z suffix),          *)
(* "offset" (ISO-8601 with +02:00), "naive" (ISO-8601 without a zone),     *)
(* "bad" (not ISO-8601), "empty" (datetime="").  t is the instant (the     *)
(* wall-clock reading for "naive").                                        *)
(***************************************************************************)
Attr(form, t) == [form |-> form, t |-> t]

\* datetime.datetime.fromisoformat(datetime_attr.replace('Z', '+00:00'))
fromisoformat(attr) ==
    CASE attr.form = "Z" -> Ok(DT(attr.t, "UTC"))
      [] attr.form = "offset" -> Ok(DT(attr.t, "+02:00"))
      [] attr.form = "naive" -> Ok(DT(attr.t, "naive"))
      [] OTHER -> Raise("ValueError")

\* the <time> element of an article
TimeElem(text, hasAttr, attr) ==
    [present |-> TRUE, text |-> text, hasAttr |-> hasAttr, attr |-> attr]

NoTimeElem == [present |-> FALSE, text |-> <<>>, hasAttr |-> FALSE, attr |-> Attr("empty", 0)]

\* `if date_str` (src/scrape_news.py:92,103,105): not None and not ""
DateStrTruthy(time) == time.present /\ Len(time.text) > 0

\* `if datetime_attr` (src/scrape_news.py:93,97): present and not ""
DatetimeAttrTruthy(time) == time.present /\ time.hasAttr /\ time.attr.form # "empty"

\* ResolveDate with the priorities swapped: the date text is tried first and
\* the datetime attribute only without text
ResolveDate_TextFirst(time, now) ==
    LET parsed == IF DateStrTruthy(time)
                  THEN parse_relative_date(time.text, now)
                  ELSE IF DatetimeAttrTruthy(time) /\ fromisoformat(time.attr).raised = ""
                       THEN fromisoformat(time.attr)
                       ELSE Ok(NoDate)
    IN IF parsed.raised # "" THEN parsed
       ELSE IF parsed.date = NoDate THEN Ok(DatetimeNow(now, "UTC"))
       ELSE parsed

\* src/scrape_news.py:95-110
ResolveDate(time, now) ==
    LET viaText == IF DateStrTruthy(time)
                   THEN parse_relative_date(time.text, now)
                   ELSE Ok(NoDate)
        parsed == IF DatetimeAttrTruthy(time)
                  THEN IF fromisoformat(time.attr).raised = "ValueError"
                       THEN viaText
                       ELSE fromisoformat(time.attr)
                  ELSE viaText
    IN IF parsed.raised # "" THEN parsed
       ELSE IF parsed.date = NoDate THEN Ok(DatetimeNow(now, "UTC"))
       ELSE parsed

(***************************************************************************)
(* URLs: scheme, host (netloc), whether the path starts with "/", and the  *)
(* path's segments.                                                        *)
(***************************************************************************)
Url(scheme, host, rooted, path) ==
    [scheme |-> scheme, host |-> host, rooted |-> rooted, path |-> path]

\* src/scrape_news.py:16  "https://news.google.com/"
BASE_URL == Url("https", "news.google.com", TRUE, <<>>)

\* the placeholder link "#" of src/scrape_news.py:90
PlaceholderLink == Url("", "", FALSE, <<"#">>)

EmptyHref == Url("", "", FALSE, <<>>)

\* urlparse lower-cases the scheme
LowerScheme(s) ==
    CASE s = "HTTPS" -> "https"
      [] s = "HTTP" -> "http"
      [] OTHER -> s

\* the path without its "." segments (the vocabulary has no ".." segment)
RECURSIVE RemoveDots(_)
RemoveDots(path) ==
    IF path = <<>> THEN <<>>
    ELSE IF Head(path) = "." THEN RemoveDots(Tail(path))
    ELSE <<Head(path)>> \o RemoveDots(Tail(path))

\* urllib.parse.urljoin(BASE_URL, href)
urljoin(href) ==
    IF href = EmptyHref THEN BASE_URL
    ELSE LET scheme == IF href.scheme = "" THEN BASE_URL.scheme
                       ELSE LowerScheme(href.scheme)
         IN IF scheme # BASE_URL.scheme THEN href
            ELSE IF href.host # ""
                 THEN Url(scheme, href.host, href.rooted, href.path)
            ELSE Url(scheme, BASE_URL.host, TRUE, RemoveDots(href.path))

\* href.startswith('./')
StartsWithDotSlash(href) ==
    /\ href.scheme = "" /\ href.host = "" /\ ~href.rooted
    /\ Len(href.path) >= 2 /\ href.path[1] = "."

\* src/scrape_news.py:54-58
get_absolute_url(href) ==
    IF href # EmptyHref /\ StartsWithDotSlash(href)
    THEN urljoin(Url(href.scheme, href.host, href.rooted, Tail(href.path)))
    ELSE urljoin(href)

\* link.startswith(BASE_URL): the rendered link begins "https://news.google.com/"
StartsWithBase(link) ==
    link.scheme = BASE_URL.scheme /\ link.host = BASE_URL.host /\ link.rooted

(***************************************************************************)
(* Article elements.                                                       *)
(***************************************************************************)
\* element.get_text(strip=True) on the texts of the vocabulary
get_text_strip(raw) ==
    CASE raw = " Housing starts rise " -> "Housing starts rise"
      [] raw = " " -> ""
      [] raw = " Reuters " -> "Reuters"
      [] OTHER -> raw

\* the "h3 > a" element: TITLE_SELECTOR and LINK_SELECTOR select the same element
AElem(text, hasHref, href) ==
    [present |-> TRUE, text |-> text, hasHref |-> hasHref, href |-> href]

NoAElem == [present |-> FALSE, text |-> "", hasHref |-> FALSE, href |-> EmptyHref]

SourceElem(text) == [present |-> TRUE, text |-> text]

NoSourceElem == [present |-> FALSE, text |-> ""]

RawEntry(a, source, time) == [a |-> a, source |-> source, time |-> time]

\* src/scrape_news.py:89
TitleOf(e) == IF e.a.present THEN get_text_strip(e.a.text) ELSE "N/A"

\* src/scrape_news.py:90
LinkOf(e) ==
    IF e.a.present /\ e.a.hasHref THEN get_absolute_url(e.a.href) ELSE PlaceholderLink

\* src/scrape_news.py:91
SourceOf(e) == IF e.source.present THEN get_text_strip(e.source.text) ELSE "N/A"

\* src/scrape_news.py:114
PassesFilter(title, link, source) ==
    /\ title # "N/A"
    /\ link # PlaceholderLink
    /\ ~StartsWithBase(link)
    /\ source # "Google News"

\* the dictionary appended at src/scrape_news.py:115-121 (the display-only
\* 'date_str' string is left out: nothing but the renderer's fallback reads it)
Item(title, link, source, date) ==
    [title |-> title, link |-> link, source |-> source, date |-> date]

(***************************************************************************)
(* The inputs: what the page's <article> elements can hold.  Each group    *)
(* varies one sub-element and keeps the others at their usual value.       *)
(***************************************************************************)
ExternalHref == Url("https", "www.example.com", TRUE, <<"story">>)

Hrefs ==
    { EmptyHref,                                                        \* href=""
      Url("", "", FALSE, <<".", "articles", "1">>),                     \* ./articles/1
      ExternalHref,                                                     \* https://www.example.com/story
      Url("http", "news.google.com", TRUE, <<"articles", "1">>),        \* http://news.google.com/articles/1
      Url("https", "NEWS.GOOGLE.COM", TRUE, <<"articles", "1">>),       \* https://NEWS.GOOGLE.COM/articles/1
      Url("HTTPS", "news.google.com", TRUE, <<"articles", "1">>),       \* HTTPS://news.google.com/articles/1
      Url("https", "news.google.com", TRUE, <<"articles", "1">>),       \* https://news.google.com/articles/1
      Url("https", "news.google.com", FALSE, <<>>) }                    \* https://news.google.com

TitleTexts == {"", "Housing starts rise", " Housing starts rise ", "HOUSING STARTS RISE"}

DefaultAElem == AElem("Housing starts rise", TRUE, ExternalHref)

AElems ==
    {NoAElem, AElem("Housing starts rise", FALSE, EmptyHref)}
        \cup {AElem(t, TRUE, ExternalHref) : t \in TitleTexts}
        \cup {AElem("Housing starts rise", TRUE, h) : h \in Hrefs}

DefaultSourceElem == SourceElem("Reuters")

SourceElems ==
    {NoSourceElem, SourceElem("Reuters"), SourceElem(" Reuters "),
     SourceElem("AP"), SourceElem("Google News")}

\* the texts of the <time> element
RelativeTexts ==
    { <<W("Yesterday")>>,
      <<Num(2), W("hours"), W("ago")>>,
      <<Num(0), W("minutes"), W("ago")>>,
      <<Num(30), W("minutes"), W("ago")>>,
      <<Num(3), W("days"), W("ago")>>,
      <<Num(1000000), W("days"), W("ago")>> }

AbsoluteTexts ==
    { <<W("Wed,"), Num(2), W("Oct"), Num(2024), W("10:00:00"), W("GMT")>>,
      <<W("Monday,"), Num(2), W("Oct"), Num(2024)>> }

GarbageTexts == { <<W("Hours"), W("ago")>>, <<W("n/a")>> }

TimeTexts == {<<>>} \cup RelativeTexts \cup AbsoluteTexts \cup GarbageTexts

DatetimeAttrs ==
    { Attr("empty", 0),
      Attr("Z", NowStart - 60),
      Attr("offset", NowStart - 120),
      Attr("naive", NowStart - 120),
      Attr("bad", 0) }

DefaultTimeElem == TimeElem(<<Num(2), W("hours"), W("ago")>>, TRUE, Attr("Z", NowStart - 60))

TimeElems ==
    {NoTimeElem}
        \cup {TimeElem(x, FALSE, Attr("empty", 0)) : x \in TimeTexts}
        \cup {TimeElem(x, TRUE, a) : x \in TimeTexts, a \in DatetimeAttrs}

RawEntries ==
    {RawEntry(a, DefaultSourceElem, DefaultTimeElem) : a \in AElems}
        \cup {RawEntry(DefaultAElem, s, DefaultTimeElem) : s \in SourceElems}
        \cup {RawEntry(DefaultAElem, DefaultSourceElem, t) : t \in TimeElems}

(***************************************************************************)
(* One iteration of parse_news's loop (src/scrape_news.py:83-121).         *)
(***************************************************************************)
\* what the iteration did with entry e when the clock read now
Iteration(e, now) ==
    LET r == ResolveDate(e.time, now)
        title == TitleOf(e)
        link == LinkOf(e)
        source == SourceOf(e)
    IN [seen |-> TRUE, entry |-> e, now |-> now, raised |-> r.raised,
        date |-> r.date, title |-> title, link |-> link, source |-> source,
        accepted |-> r.raised = "" /\ PassesFilter(title, link, source)]

NoIteration ==
    [seen |-> FALSE, entry |-> RawEntry(NoAElem, NoSourceElem, NoTimeElem),
     now |-> 0, raised |-> "", date |-> NoDate, title |-> "N/A",
     link |-> PlaceholderLink, source |-> "N/A", accepted |-> FALSE]

(***************************************************************************)
(* news_items.sort(key=lambda item: item['date'], reverse=True)            *)
(* (src/scrape_news.py:124): a stable sort, descending; comparing a naive  *)
(* with an aware datetime raises TypeError.                                *)
(***************************************************************************)
SortRaises(items) ==
    \E i, j \in 1..Len(items) : IsAware(items[i].date) /\ ~IsAware(items[j].date)

\* the sort key's position on the time line: item['date'] in scrape_news.py,
\* the strptime of item['published'] in fetch_news.py
SortKey(item) ==
    IF "date" \in DOMAIN item THEN item.date.t ELSE item.published.t

\* x goes after every element whose key is not smaller than its own
RECURSIVE InsertDesc(_, _)
InsertDesc(sorted, x) ==
    IF sorted = <<>> THEN <<x>>
    ELSE IF SortKey(Head(sorted)) >= SortKey(x)
         THEN <<Head(sorted)>> \o InsertDesc(Tail(sorted), x)
         ELSE <<x>> \o sorted

RECURSIVE SortDesc(_)
SortDesc(items) ==
    IF items = <<>> THEN <<>>
    ELSE InsertDesc(SortDesc(SubSeq(items, 1, Len(items) - 1)), items[Len(items)])

(***************************************************************************)
(* HTML text: sequences of tokens.                                         *)
(***************************************************************************)
Tok(tag) == [tag |-> tag, item |-> <<>>]

\* one <li> of the list (src/scrape_news.py:148-155)
Li(item) == [tag |-> "li", item |-> <<item>>]

\* src/scrape_news.py:21
NEWS_PLACEHOLDER == Tok("<!-- NEWS_CONTENT_PLACEHOLDER -->")

\* src/scrape_news.py:132
NoNewsFragment == <<Tok("<ul><li>No news found or error fetching data.</li></ul>")>>

\* src/scrape_news.py:160-166
ListFragment(items) ==
    <<Tok("<ul class=news-list>")>> \o [i \in 1..Len(items) |-> Li(items[i])] \o <<Tok("</ul>")>>

\* src/scrape_news.py:129-167, when requests.utils.escape exists
generate_news_list_html(items) ==
    IF items = <<>> THEN NoNewsFragment ELSE ListFragment(items)

\* src/scrape_news.py:195
AppendedBanner == Tok("<hr><h2>Appended News (Placeholder Missing):</h2>")

\* NEWS_PLACEHOLDER in template_content
PlaceholderIn(tpl) == \E i \in 1..Len(tpl) : tpl[i] = NEWS_PLACEHOLDER

\* template_content.replace(NEWS_PLACEHOLDER, news_list_html): every occurrence,
\* left to right (the marker cannot overlap itself)
RECURSIVE StrReplace(_, _)
StrReplace(tpl, frag) ==
    IF tpl = <<>> THEN <<>>
    ELSE IF Head(tpl) = NEWS_PLACEHOLDER THEN frag \o StrReplace(Tail(tpl), frag)
    ELSE <<Head(tpl)>> \o StrReplace(Tail(tpl), frag)

\* FinalHtml without the append: a template lacking the marker is written as is
FinalHtml_DropsNews(tpl, frag) ==
    IF ~PlaceholderIn(tpl)
    THEN tpl
    ELSE StrReplace(tpl, frag)

\* final_html of src/scrape_news.py:192-197
FinalHtml(tpl, frag) ==
    IF ~PlaceholderIn(tpl)
    THEN tpl \o <<AppendedBanner>> \o frag
    ELSE StrReplace(tpl, frag)

\* error_html of src/scrape_news.py:188
ErrorHtml(frag) ==
    <<Tok("<h1>Error</h1><p>Could not read template file</p>")>> \o frag \o <<Tok("</body></html>")>>

TemplateTokens == {Tok("<header>"), Tok("<footer>"), NEWS_PLACEHOLDER}

Templates == UNION {[1..n -> TemplateTokens] : n \in 0..MaxTemplateLen}

File(content) == [written |-> TRUE, content |-> content]

NoFile == [written |-> FALSE, content |-> <<>>]

Readable(tpl) == [readable |-> TRUE, content |-> tpl]

Unreadable == [readable |-> FALSE, content |-> <<>>]

(***************************************************************************)
(* fetch_news.py: the feed's entries.                                      *)
(***************************************************************************)
\* entry.published: form "rfc822" matches "%a, %d %b %Y %H:%M:%S %Z",
\* form "iso" does not (strptime raises ValueError); t is the instant denoted
Published(form, t) == [form |-> form, t |-> t]

FeedEntry(title, link, hasPublished, published) ==
    [title |-> title, link |-> link, hasPublished |-> hasPublished, published |-> published]

FeedEntries ==
    {FeedEntry(t, l, TRUE, Published("rfc822", NowStart - m)) :
         t \in {"Housing starts rise", "Mortgage rates fall"},
         l \in {ExternalHref},
         m \in {60, 120}}
        \cup {FeedEntry("Housing starts rise", ExternalHref, TRUE, Published("iso", NowStart - 60)),
              FeedEntry("Housing starts rise", ExternalHref, FALSE, Published("iso", 0))}

\* the dictionary built at src/fetch_news.py:8-12
FeedItem(e) == [title |-> e.title, link |-> e.link, published |-> e.published]

\* one object of the array json.dump writes (src/fetch_news.py:19)
JsonObject(item) == [tag |-> "json", item |-> <<item>>]

\* datetime.strptime(x["published"], "%a, %d %b %Y %H:%M:%S %Z") raises for some item
StrptimeRaises(items) == \E i \in 1..Len(items) : items[i].published.form # "rfc822"

(***************************************************************************)
(* Initial state and actions.                                              *)
(***************************************************************************)
Init ==
    /\ prog \in {"scrape_news", "fetch_news"}
    /\ pc = "start"
    /\ clock = NowStart
    /\ remaining = 0
    /\ news_items = <<>>
    /\ unsorted = <<>>
    /\ last = NoIteration
    /\ news_list_html = <<>>
    /\ template = Unreadable
    /\ output = NoFile
    /\ success = FALSE
    /\ raised = ""
    /\ exit_status = -1

\* an exception nobody catches: the interpreter prints it and exits with status 1
Uncaught(e) ==
    /\ pc' = "done"
    /\ raised' = e
    /\ exit_status' = 1

\* fetch_news() and the branch on html_content (src/scrape_news.py:61-70, 211-216):
\* a RequestException (or an empty body) sends the run on with no articles
FetchNews ==
    /\ prog = "scrape_news" /\ pc = "start"
    /\ \E ok \in BOOLEAN, n \in 0..MaxEntries :
          IF ok
          THEN /\ pc' = "parse"
               /\ remaining' = n
          ELSE /\ n = 0
               /\ pc' = "generate"
               /\ remaining' = 0
    /\ UNCHANGED <<prog, clock, news_items, unsorted, last, news_list_html,
                   template, output, success, raised, exit_status>>

\* one iteration of the loop of parse_news (src/scrape_news.py:83-121)
ParseArticle ==
    /\ prog = "scrape_news" /\ pc = "parse" /\ remaining > 0
    /\ \E e \in RawEntries :
          LET it == Iteration(e, clock)
          IN /\ last' = it
             /\ IF it.raised # ""
                THEN /\ Uncaught(it.raised)
                     /\ UNCHANGED <<remaining, news_items>>
                ELSE /\ remaining' = remaining - 1
                     /\ news_items' =
                            IF it.accepted
                            THEN Append(news_items, Item(it.title, it.link, it.source, it.date))
                            ELSE news_items
                     /\ UNCHANGED <<pc, raised, exit_status>>
    /\ UNCHANGED <<prog, clock, unsorted, news_list_html, template, output, success>>

\* the sort that ends parse_news (src/scrape_news.py:123-127)
SortItems ==
    /\ prog = "scrape_news" /\ pc = "parse" /\ remaining = 0
    /\ unsorted' = news_items
    /\ IF SortRaises(news_items)
       THEN /\ Uncaught("TypeError")
            /\ UNCHANGED news_items
       ELSE /\ news_items' = SortDesc(news_items)
            /\ pc' = "generate"
            /\ UNCHANGED <<raised, exit_status>>
    /\ UNCHANGED <<prog, clock, remaining, last, news_list_html, template, output, success>>

\* generate_news_list_html (src/scrape_news.py:129-167).  requests.utils.escape
\* (lines 146-147) exists in some releases of requests and not in others:
\* where it does not, rendering the first item raises AttributeError.
GenerateNewsListHtml ==
    /\ prog = "scrape_news" /\ pc = "generate"
    /\ \E escape_exists \in BOOLEAN :
          IF news_items # <<>> /\ ~escape_exists
          THEN /\ Uncaught("AttributeError")
               /\ UNCHANGED news_list_html
          ELSE /\ news_list_html' = generate_news_list_html(news_items)
               /\ pc' = "publish"
               /\ UNCHANGED <<raised, exit_status>>
    /\ UNCHANGED <<prog, clock, remaining, news_items, unsorted, last, template, output, success>>

\* write_final_html and write_output_fallback (src/scrape_news.py:170-206)
WriteFinalHtml ==
    /\ prog = "scrape_news" /\ pc = "publish"
    /\ \E readable \in BOOLEAN, tpl \in Templates, write_ok \in BOOLEAN :
          IF ~readable
          THEN /\ tpl = <<>>
               /\ template' = Unreadable
               /\ output' = IF write_ok THEN File(ErrorHtml(news_list_html)) ELSE output
               /\ success' = FALSE
          ELSE /\ template' = Readable(tpl)
               /\ output' = IF write_ok THEN File(FinalHtml(tpl, news_list_html)) ELSE output
               /\ success' = write_ok
    /\ pc' = "finish"
    /\ UNCHANGED <<prog, clock, remaining, news_items, unsorted, last, news_list_html,
                   raised, exit_status>>

\* the status the interpreter exits with when the __main__ block ends
\* normally: the block prints and never calls sys.exit
ExitStatusAtEnd(ok) == 0

\* the end of the __main__ block (src/scrape_news.py:224-227)
Finish ==
    /\ prog = "scrape_news" /\ pc = "finish"
    /\ exit_status' = ExitStatusAtEnd(success)
    /\ pc' = "done"
    /\ UNCHANGED <<prog, clock, remaining, news_items, unsorted, last, news_list_html,
                   template, output, success, raised>>

\* feedparser.parse(url) (src/fetch_news.py:6-7): a failed fetch gives no entries
FeedParse ==
    /\ prog = "fetch_news" /\ pc = "start"
    /\ \E n \in 0..MaxEntries : remaining' = n
    /\ pc' = "parse"
    /\ UNCHANGED <<prog, clock, news_items, unsorted, last, news_list_html,
                   template, output, success, raised, exit_status>>

\* one entry of the list comprehension (src/fetch_news.py:8-12); a missing
\* entry.published raises AttributeError
FeedItemStep ==
    /\ prog = "fetch_news" /\ pc = "parse" /\ remaining > 0
    /\ \E e \in FeedEntries :
          IF ~e.hasPublished
          THEN /\ Uncaught("AttributeError")
               /\ UNCHANGED <<remaining, news_items>>
          ELSE /\ remaining' = remaining - 1
               /\ news_items' = Append(news_items, FeedItem(e))
               /\ UNCHANGED <<pc, raised, exit_status>>
    /\ UNCHANGED <<prog, clock, unsorted, last, news_list_html, template, output, success>>

\* news.sort(key=strptime(published), reverse=True) (src/fetch_news.py:17)
FeedSort ==
    /\ prog = "fetch_news" /\ pc = "parse" /\ remaining = 0
    /\ unsorted' = news_items
    /\ IF StrptimeRaises(news_items)
       THEN /\ Uncaught("ValueError")
            /\ UNCHANGED news_items
       ELSE /\ news_items' = SortDesc(news_items)
            /\ pc' = "publish"
            /\ UNCHANGED <<raised, exit_status>>
    /\ UNCHANGED <<prog, clock, remaining, last, news_list_html, template, output, success>>

\* json.dump to news.json (src/fetch_news.py:18-19); an OSError is not caught
FeedDump ==
    /\ prog = "fetch_news" /\ pc = "publish"
    /\ \E write_ok \in BOOLEAN :
          IF write_ok
          THEN /\ output' = File([i \in 1..Len(news_items) |-> JsonObject(news_items[i])])
               /\ pc' = "done"
               /\ exit_status' = 0
               /\ UNCHANGED raised
          ELSE /\ Uncaught("OSError")
               /\ UNCHANGED output
    /\ UNCHANGED <<prog, clock, remaining, news_items, unsorted, last, news_list_html,
                   template, success>>

Next ==
    \/ FetchNews
    \/ ParseArticle
    \/ SortItems
    \/ GenerateNewsListHtml
    \/ WriteFinalHtml
    \/ Finish
    \/ FeedParse
    \/ FeedItemStep
    \/ FeedSort
    \/ FeedDump

Spec == Init /\ [][Next]_vars

(***************************************************************************)
(* Vocabulary of the claims.                                               *)
(***************************************************************************)
Scrape == prog = "scrape_news"

\* the loop has ended and its list was handed on
Parsed == pc \in {"generate", "publish", "finish"} \/ (pc = "done" /\ raised \notin {"TypeError", "OverflowError", "ValueError"})

\* lower-cased, trimmed title and link: the deduplication key of the claim
NormTitle(t) ==
    CASE t = "HOUSING STARTS RISE" -> "housing starts rise"
      [] t = "Housing starts rise" -> "housing starts rise"
      [] t = "Mortgage rates fall" -> "mortgage rates fall"
      [] OTHER -> t

LowerHost(h) == IF h = "NEWS.GOOGLE.COM" THEN "news.google.com" ELSE h

NormLink(l) == Url(LowerScheme(l.scheme), LowerHost(l.host), l.rooted, l.path)

DedupKey(item) == <<NormTitle(item.title), NormLink(item.link)>>

\* the last iteration's datetime attribute parses
AttrValid(it) ==
    DatetimeAttrTruthy(it.entry.time) /\ it.entry.time.attr.form \in {"Z", "offset", "naive"}

\* the last iteration's date text, "" when there is no <time> element
TextOf(it) == it.entry.time.text

\* the instant an absolute-form text of the vocabulary denotes: 2024-10-02T10:00Z
AbsoluteTextInstant == (739160 * 24 + 10) * 60

\* what a relative phrase of the vocabulary means, in minutes before now:
\* "N <unit>(s) ago" is N units, "yesterday" one day
UnitMinutes(w) ==
    CASE w.s \in {"minute", "minutes"} -> 1
      [] w.s \in {"hour", "hours"} -> 60
      [] w.s \in {"day", "days"} -> 1440
      [] OTHER -> 0

PhraseMinutes(text) ==
    IF Len(text) = 1 THEN 1440 ELSE text[1].n * UnitMinutes(text[2])

\* C1: the article list holds at most one article per key, the key being the
\* lower-cased, trimmed (title, link) pair: of two entries with the same key
\* only the first is kept.
C1_AtMostOneArticlePerKey ==
    \A i, j \in 1..Len(news_items) :
        i < j => DedupKey(news_items[i]) # DedupKey(news_items[j])

\* the returned list is non-increasing in the resolved timestamp
NonIncreasing(items) ==
    \A i \in 1..(Len(items) - 1) : SortKey(items[i]) >= SortKey(items[i + 1])

\* articles with equal timestamps are in the order of before
KeepsTieOrder(before, after) ==
    \A i \in 1..Len(before) :
        SelectSeq(after, LAMBDA x : SortKey(x) = SortKey(before[i]))
            = SelectSeq(before, LAMBDA x : SortKey(x) = SortKey(before[i]))

\* C2: the returned list is non-increasing in the resolved timestamp, articles
\* with equal timestamps keep their discovery order, and the sort completes
\* for every list of timestamps the resolver produces.
C2_SortedStableAndSortCompletes ==
    Scrape =>
        /\ raised # "TypeError"
        /\ Parsed =>
              /\ Len(news_items) = Len(unsorted)
              /\ NonIncreasing(news_items)
              /\ KeepsTieOrder(unsorted, news_items)

\* C3: every article that reaches generate_news_list_html has a non-empty
\* title and an absolute link.
C3_ArticlesHaveTitleAndAbsoluteLink ==
    Scrape =>
        \A i \in 1..Len(news_items) :
            /\ news_items[i].title \notin {"", "N/A"}
            /\ news_items[i].link.scheme # ""
            /\ news_items[i].link.host # ""

\* C4: date resolution never raises and always yields a timestamp, whatever
\* the date evidence on the entry.
C4_DateResolutionNeverRaises ==
    last.seen => last.raised = "" /\ last.date # NoDate

\* the publish step ran and failed
PublishFailed == pc \in {"finish", "done"} /\ raised = "" /\ ~success

\* C5: the run ends with a nonzero exit status if and only if the publish
\* step failed.
C5_NonzeroExitIffPublishFails ==
    (Scrape /\ pc = "done") => (exit_status # 0 <=> PublishFailed)

C7_RelativePhraseExact ==
    (last.seen /\ ~AttrValid(last) /\ TextOf(last) \in RelativeTexts) =>
        /\ last.raised = ""
        /\ last.date.t = last.now - PhraseMinutes(TextOf(last))

\* C8: every resolved timestamp stored on an article is timezone-aware.
C8_ResolvedTimestampsAreAware ==
    Scrape => \A i \in 1..Len(news_items) : IsAware(news_items[i].date)

\* where token i of the template starts in the output, when every marker
\* before it was replaced by the fragment
Offset(tpl, frag, i) ==
    (i - 1) + (Len(frag) - 1) * Cardinality({j \in 1..(i - 1) : tpl[j] = NEWS_PLACEHOLDER})

\* out is tpl with each marker replaced by frag
IsReplaced(out, tpl, frag) ==
    /\ Len(out) = Offset(tpl, frag, Len(tpl) + 1)
    /\ \A i \in 1..Len(tpl) :
          IF tpl[i] = NEWS_PLACEHOLDER
          THEN SubSeq(out, Offset(tpl, frag, i) + 1, Offset(tpl, frag, i) + Len(frag)) = frag
          ELSE out[Offset(tpl, frag, i) + 1] = tpl[i]

\* out is the whole of tpl, then the warning banner, then frag
IsAppended(out, tpl, frag) ==
    /\ Len(out) = Len(tpl) + 1 + Len(frag)
    /\ SubSeq(out, 1, Len(tpl)) = tpl
    /\ out[Len(tpl) + 1] = AppendedBanner
    /\ SubSeq(out, Len(tpl) + 2, Len(out)) = frag

\* C9: with a readable template that lacks the marker, write_final_html
\* follows one policy: the output is the complete template, then the warning
\* banner, then the rendered fragment, and the step reports what the write
\* did; no output is written without the fragment.  With the marker present
\* the output is the template with the marker replaced by the fragment.
C9_PlaceholderPolicy ==
    (Scrape /\ pc \in {"finish", "done"} /\ raised = "" /\ template.readable) =>
        /\ success = output.written
        /\ output.written =>
              IF PlaceholderIn(template.content)
              THEN IsReplaced(output.content, template.content, news_list_html)
              ELSE IsAppended(output.content, template.content, news_list_html)

\* a run with articles published into a non-empty template without the marker
C9_Witness ==
    /\ Scrape /\ pc = "done" /\ template.readable
    /\ template.content # <<>> /\ ~PlaceholderIn(template.content)
    /\ news_items # <<>>
    /\ output.written

\* C10: with title and link present, an article is excluded if and only if
\* its absolute link's host is the aggregator's own host, whatever the link's
\* scheme, letter case or path.
C10_ExcludedIffAggregatorHost ==
    (/\ last.seen /\ last.raised = ""
     /\ last.title # "N/A" /\ last.link # PlaceholderLink
     /\ last.source # "Google News") =>
        (~last.accepted <=> LowerHost(last.link.host) = BASE_URL.host)

====
